---- MODULE Spec2Model ----
(***************************************************************************)
(* Model of the auth proxy (src/marimo-test/auth_proxy.py): the in-memory  *)
(* session store, the token validator, the redeploy client and the HTTP    *)
(* handlers that compose them.                                             *)
(*                                                                         *)
(* Time is counted in hours (SESSION_DURATION_HOURS is the only duration   *)
(* the code uses).  The handlers are coroutines of one event loop and the  *)
(* calls they make on the store are synchronous, so a handler is one       *)
(* action.  create_session reads the clock twice (once for the expiry,     *)
(* once in the sweep); the second read may be later than the first.        *)
(*                                                                         *)
(* Three specifications share the module.  Spec takes every handler as one *)
(* action.  SpecLoop runs the handlers statement by statement as tasks of  *)
(* the event loop, which changes task only where a coroutine awaits.       *)
(* SpecWatcher is the file watcher (src/marimo-test/file_watcher.py), a    *)
(* process of its own that polls one file and commits it when it changes.  *)
(***************************************************************************)
EXTENDS Integers, Sequences, FiniteSets, TLC

\* ---------------------------------------------------------------- bounds
\* The clock is observed every TickHours hours, from 0 to MaxClock; at most
\* MaxSessions sessions are created.
TickHours == 4
MaxClock == 12
MaxSessions == 2

\* The watched file takes the modification times 1..MaxMtime.
MaxMtime == 2

\* ------------------------------------------------------ program constants
SESSION_DURATION_HOURS == 8

\* ------------------------------------------------------------- value sets
\* Python's None, for a missing cookie, a missing "token" key, a null token.
None == "<None>"

\* Tokens a client may submit: two opaque credentials, the empty string and
\* a missing/None token.
Tokens == {"tokA", "tokB"}
TokenInputs == Tokens \cup {"", None}

\* Python truth value of a str-or-None value (`if not token`, `if token`).
Truthy(v) == v # None /\ v # ""

\* Mutation of NewSessionId: the generator repeats itself.
NewSessionId_repeating(n) == "sid1"

\* The n-th identifier drawn from secrets.token_urlsafe(32): 256 random bits,
\* modelled as never repeating.
NewSessionId(n) == "sid" \o ToString(n)

\* Cookie values a request may carry: missing, empty, an identifier the
\* store has issued (valid, expired or already removed), an unknown one.
CookieInputs == {None, "", "unknown"} \cup {NewSessionId(n) : n \in 1..MaxSessions}

\* Environment configuration: unset ("" is the default of os.environ.get)
\* or set.
ConfigValues == {"", "cfg"}

\* What the permission check of the identity API does: it raises (transport
\* error, non-2xx, malformed response), or returns a value.
AuthOutcomes == {"raise", "True", "False", "None"}

\* bool(result) of the value returned by validate_permissions.
Bool(outcome) == outcome = "True"

\* Request bodies of POST /validate-token: not JSON at all, JSON that is not
\* an object, or an object whose "token" is a credential, "" or missing.
Bodies == {[kind |-> "invalid_json", token |-> None],
           [kind |-> "not_object", token |-> None]}
          \cup {[kind |-> "object", token |-> t] : t \in TokenInputs}

\* Outcome of one call to the deployment API: a 2xx response, or anything
\* raise_for_status or the transport turns into an exception.
HttpOutcomes == {"2xx", "error"}

\* The answers the deployment API gives to the GET, the PUT and the POST of
\* one redeploy; it keeps failing after its first failure.
Scripts == {<<"error", "error", "error">>, <<"2xx", "error", "error">>,
            <<"2xx", "2xx", "error">>, <<"2xx", "2xx", "2xx">>}

\* What response.json() of a 2xx GET yields: a JSON object, given by its
\* fields, or something the version tag cannot be set on (a body that is not
\* JSON, or JSON that is not an object).
NoFields == [f \in {} |-> ""]

Docs == {[kind |-> "object", fields |-> [name |-> "svc"]],
         [kind |-> "object", fields |-> [name |-> "svc", versionTag |-> "v1"]],
         [kind |-> "object",
          fields |-> [name |-> "job", versionTag |-> "latest", replicas |-> "2"]],
         [kind |-> "not_object", fields |-> NoFields]}

VARIABLES
    sessions,       \* the dict `sessions`, in insertion order
    now,            \* the wall clock, datetime.utcnow()
    nextId,         \* how many identifiers token_urlsafe has produced
    PORTAL_API, WORKSPACE_ID, DEPLOYMENT_ID,   \* module-level configuration
    resp,           \* the last request and its response
    observed,       \* history: ids is_valid_session has found expired
    file,           \* watcher: the modification time of the watched file
    last_mtime,     \* watcher: the local last_mtime of main()
    wpc,            \* watcher: the statement main() is at
    wcfg,           \* watcher: its PORTAL_API, WORKSPACE_ID, APPLICATION_ID
    wcalls,         \* watcher: the HTTP calls of the current scan
    seen,           \* history: what the last stat that returned has returned
    werr,           \* history: what has failed in the current scan
    tasks,          \* event loop: the requests in progress
    running,        \* event loop: the task that holds the loop, or 0
    fault           \* history: what has gone wrong in a task

\* The variables of the auth proxy, of the watcher and of the event loop.
avars == <<sessions, now, nextId, PORTAL_API, WORKSPACE_ID, DEPLOYMENT_ID,
           resp, observed>>

wvars == <<file, last_mtime, wpc, wcfg, wcalls, seen, werr>>

lvars == <<tasks, running, fault>>

vars == <<avars, wvars, lvars>>

config == <<PORTAL_API, WORKSPACE_ID, DEPLOYMENT_ID>>

\* ------------------------------------------------------------ dict helpers
Ids(st) == {st[i].id : i \in 1..Len(st)}

Has(st, sid) == sid \in Ids(st)

IndexOf(st, sid) == CHOOSE i \in 1..Len(st) : st[i].id = sid

\* sessions[sid]
Get(st, sid) == st[IndexOf(st, sid)]

\* sessions[sid] = entry: a new key goes last, an existing key keeps its place.
DictSet(st, entry) ==
    IF Has(st, entry.id)
    THEN [st EXCEPT ![IndexOf(st, entry.id)] = entry]
    ELSE Append(st, entry)

\* del sessions[sid]
DictDel(st, sid) == SelectSeq(st, LAMBDA s : s.id # sid)

\* ------------------------------------------------------------ session store
\* Mutation of cleanup_sessions: the comparison is reversed, so the sweep
\* drops the live entries and keeps the expired ones.
cleanup_sessions_reversed(st, t) == SelectSeq(st, LAMBDA s : s.expires < t)

\* Mutation of cleanup_sessions: the sweep also drops the entries that
\* expire at this very instant.
cleanup_sessions_inclusive(st, t) == SelectSeq(st, LAMBDA s : ~(s.expires <= t))

\* cleanup_sessions(): drop every entry with expires < now.
cleanup_sessions(st, t) == SelectSeq(st, LAMBDA s : ~(s.expires < t))

\* create_session(token): insert under the fresh identifier sid with
\* expires = utcnow() + 8h (clock read t1), then sweep (clock read t2).
create_session(st, token, sid, t1, t2) ==
    [id |-> sid,
     sessions |-> cleanup_sessions(
                      DictSet(st, [id |-> sid, token |-> token,
                                   expires |-> t1 + SESSION_DURATION_HOURS]),
                      t2)]

\* Mutation of is_valid_session: the expiry check is missing.
is_valid_session_noexpiry(st, sid, t) ==
    IF ~Truthy(sid) \/ ~Has(st, sid)
    THEN [ok |-> FALSE, sessions |-> st, expired |-> FALSE]
    ELSE [ok |-> TRUE, sessions |-> st, expired |-> FALSE]

\* Mutation of is_valid_session: a successful check renews the session.
is_valid_session_sliding(st, sid, t) ==
    IF ~Truthy(sid) \/ ~Has(st, sid)
    THEN [ok |-> FALSE, sessions |-> st, expired |-> FALSE]
    ELSE IF Get(st, sid).expires < t
         THEN [ok |-> FALSE, sessions |-> DictDel(st, sid), expired |-> TRUE]
         ELSE [ok |-> TRUE,
               sessions |-> DictSet(st, [Get(st, sid) EXCEPT
                                !.expires = t + SESSION_DURATION_HOURS]),
               expired |-> FALSE]

\* is_valid_session(session_id) at clock value t: the returned bool, the
\* store it leaves, and whether it took the branch that found the entry
\* expired.
is_valid_session(st, sid, t) ==
    IF ~Truthy(sid) \/ ~Has(st, sid)
    THEN [ok |-> FALSE, sessions |-> st, expired |-> FALSE]
    ELSE IF Get(st, sid).expires < t
         THEN [ok |-> FALSE, sessions |-> DictDel(st, sid), expired |-> TRUE]
         ELSE [ok |-> TRUE, sessions |-> st, expired |-> FALSE]

\* ---------------------------------------------------------- token validator
\* Mutation of validate_quix_token: the permission check is not guarded, so
\* its exception leaves the function.
validate_quix_token_unguarded(token, outcome) ==
    IF ~Truthy(token)
    THEN [result |-> FALSE, calls |-> 0, raised |-> FALSE]
    ELSE IF outcome = "raise"
         THEN [result |-> FALSE, calls |-> 1, raised |-> TRUE]
         ELSE [result |-> Bool(outcome), calls |-> 1, raised |-> FALSE]

\* validate_quix_token(token): `calls` counts the permission checks issued
\* (the try block is entered once and holds one validate_permissions call; an
\* exception anywhere in the block is the outcome "raise"), `raised` says
\* whether an exception leaves the function.
validate_quix_token(token, outcome) ==
    IF ~Truthy(token)
    THEN [result |-> FALSE, calls |-> 0, raised |-> FALSE]
    ELSE IF outcome = "raise"
         THEN [result |-> FALSE, calls |-> 1, raised |-> FALSE]
         ELSE [result |-> Bool(outcome), calls |-> 1, raised |-> FALSE]

\* ----------------------------------------------------------- HTTP handlers
\* Mutation of validate_token: the check for a missing token is gone, so an
\* empty token reaches the validator and is answered 401.
validate_token_nocheck(body, outcome, st, sid, t1, t2) ==
    LET v == validate_quix_token(body.token, outcome)
        c == create_session(st, body.token, sid, t1, t2)
    IN  IF body.kind # "object"
        THEN [status |-> 500, cookie |-> None, sessions |-> st,
              result |-> FALSE, calls |-> 0]
        ELSE IF v.raised
        THEN [status |-> 500, cookie |-> None, sessions |-> st,
              result |-> FALSE, calls |-> v.calls]
        ELSE IF v.result
        THEN [status |-> 200, cookie |-> c.id, sessions |-> c.sessions,
              result |-> TRUE, calls |-> v.calls]
        ELSE [status |-> 401, cookie |-> None, sessions |-> st,
              result |-> FALSE, calls |-> v.calls]

\* Mutation of validate_token: the session is created before the validator's
\* answer is looked at, so a rejected token leaves an entry behind.
validate_token_createfirst(body, outcome, st, sid, t1, t2) ==
    LET v == validate_quix_token(body.token, outcome)
        c == create_session(st, body.token, sid, t1, t2)
    IN  IF body.kind # "object"
        THEN [status |-> 500, cookie |-> None, sessions |-> st,
              result |-> FALSE, calls |-> 0]
        ELSE IF ~Truthy(body.token)
        THEN [status |-> 400, cookie |-> None, sessions |-> st,
              result |-> FALSE, calls |-> 0]
        ELSE IF v.raised
        THEN [status |-> 500, cookie |-> None, sessions |-> st,
              result |-> FALSE, calls |-> v.calls]
        ELSE IF v.result
        THEN [status |-> 200, cookie |-> c.id, sessions |-> c.sessions,
              result |-> TRUE, calls |-> v.calls]
        ELSE [status |-> 401, cookie |-> None, sessions |-> c.sessions,
              result |-> FALSE, calls |-> v.calls]

\* POST /validate-token.  request.json() raises on a body that is not JSON
\* and data.get raises on JSON that is not an object; both end in the
\* handler's except clause.
validate_token(body, outcome, st, sid, t1, t2) ==
    LET v == validate_quix_token(body.token, outcome)
        c == create_session(st, body.token, sid, t1, t2)
    IN  IF body.kind # "object"
        THEN [status |-> 500, cookie |-> None, sessions |-> st,
              result |-> FALSE, calls |-> 0]
        ELSE IF ~Truthy(body.token)
        THEN [status |-> 400, cookie |-> None, sessions |-> st,
              result |-> FALSE, calls |-> 0]
        ELSE IF v.raised
        THEN [status |-> 500, cookie |-> None, sessions |-> st,
              result |-> FALSE, calls |-> v.calls]
        ELSE IF v.result
        THEN [status |-> 200, cookie |-> c.id, sessions |-> c.sessions,
              result |-> TRUE, calls |-> v.calls]
        ELSE [status |-> 401, cookie |-> None, sessions |-> st,
              result |-> FALSE, calls |-> v.calls]

\* Mutation of internal_auth: a request without a usable session is answered
\* 403 instead of 401.
internal_auth_forbidden(st, cookie, t) ==
    LET v == is_valid_session(st, cookie, t)
    IN  [status |-> IF v.ok THEN 200 ELSE 403,
         sessions |-> v.sessions, expired |-> v.expired]

\* GET /internal-auth.
internal_auth(st, cookie, t) ==
    LET v == is_valid_session(st, cookie, t)
    IN  [status |-> IF v.ok THEN 200 ELSE 401,
         sessions |-> v.sessions, expired |-> v.expired]

\* GET /internal-token: the first entry, in the dict's iteration order, with
\* expires > now and a truthy token.
internal_token(st, t) ==
    LET hits == {i \in 1..Len(st) : st[i].expires > t /\ Truthy(st[i].token)}
    IN  IF hits = {}
        THEN [status |-> 404, token |-> None]
        ELSE [status |-> 200,
              token |-> st[CHOOSE i \in hits : \A j \in hits : i <= j].token]

\* ---------------------------------------------------------- redeploy client
\* One call to the deployment API: its method, the credential of its
\* Authorization header and its JSON body (NoFields when it has none).
Call(method, token, body) == [method |-> method, bearer |-> token, body |-> body]

\* Mutation of SetLatest: the version tag is set only when the document has
\* none.
SetLatest_ifabsent(fields) ==
    [f \in DOMAIN fields \cup {"versionTag"} |->
        IF f \in DOMAIN fields THEN fields[f] ELSE "latest"]

\* deployment["versionTag"] = "latest" on the fields of a JSON object.
SetLatest(fields) ==
    [f \in DOMAIN fields \cup {"versionTag"} |->
        IF f = "versionTag" THEN "latest" ELSE fields[f]]

\* Mutation of redeploy_with_latest: the status of the PUT is not checked.
redeploy_with_latest_putunchecked(token, portal, workspace, outs, doc) ==
    LET get == Call("GET", token, NoFields)
        put == Call("PUT", token, SetLatest(doc.fields))
        post == Call("POST", token, NoFields)
    IN  IF ~Truthy(portal) \/ ~Truthy(workspace)
        THEN [ok |-> FALSE, calls |-> <<>>]
        ELSE IF outs[1] # "2xx" \/ doc.kind # "object"
        THEN [ok |-> FALSE, calls |-> <<get>>]
        ELSE [ok |-> outs[3] = "2xx", calls |-> <<get, put, post>>]

\* redeploy_with_latest(deployment_id, token): the calls it issued, in order,
\* and whether it returned or raised.  outs[k] is the answer to the k-th call,
\* doc what the GET returned when it answered 2xx.
redeploy_with_latest(token, portal, workspace, outs, doc) ==
    LET get == Call("GET", token, NoFields)
        put == Call("PUT", token, SetLatest(doc.fields))
        post == Call("POST", token, NoFields)
    IN  IF ~Truthy(portal) \/ ~Truthy(workspace)
        THEN [ok |-> FALSE, calls |-> <<>>]
        ELSE IF outs[1] # "2xx" \/ doc.kind # "object"
        THEN [ok |-> FALSE, calls |-> <<get>>]
        ELSE IF outs[2] # "2xx"
        THEN [ok |-> FALSE, calls |-> <<get, put>>]
        ELSE [ok |-> outs[3] = "2xx", calls |-> <<get, put, post>>]

\* Mutation of trigger_redeploy: the deployment id is not checked.
trigger_redeploy_nodeploymentcheck(st, cookie, t, portal, workspace, deployment, outs, doc) ==
    LET v == is_valid_session(st, cookie, t)
        after == v.sessions
        r == redeploy_with_latest(Get(after, cookie).token, portal, workspace,
                                  outs, doc)
    IN  IF ~v.ok
        THEN [status |-> 401, sessions |-> after, expired |-> v.expired,
              calls |-> <<>>]
        ELSE IF ~Has(after, cookie) \/ ~Truthy(Get(after, cookie).token)
        THEN [status |-> 401, sessions |-> after, expired |-> FALSE,
              calls |-> <<>>]
        ELSE [status |-> IF r.ok THEN 200 ELSE 500, sessions |-> after,
              expired |-> FALSE, calls |-> r.calls]

\* Mutation of trigger_redeploy: the token is taken as /internal-token takes
\* it, from the first session of the store.
trigger_redeploy_firsttoken(st, cookie, t, portal, workspace, deployment, outs, doc) ==
    LET v == is_valid_session(st, cookie, t)
        after == v.sessions
        r == redeploy_with_latest(after[1].token, portal, workspace, outs, doc)
    IN  IF ~v.ok
        THEN [status |-> 401, sessions |-> after, expired |-> v.expired,
              calls |-> <<>>]
        ELSE IF ~Truthy(deployment)
        THEN [status |-> 500, sessions |-> after, expired |-> FALSE,
              calls |-> <<>>]
        ELSE IF ~Has(after, cookie) \/ ~Truthy(Get(after, cookie).token)
        THEN [status |-> 401, sessions |-> after, expired |-> FALSE,
              calls |-> <<>>]
        ELSE [status |-> IF r.ok THEN 200 ELSE 500, sessions |-> after,
              expired |-> FALSE, calls |-> r.calls]

\* POST /redeploy.
trigger_redeploy(st, cookie, t, portal, workspace, deployment, outs, doc) ==
    LET v == is_valid_session(st, cookie, t)
        after == v.sessions
        r == redeploy_with_latest(Get(after, cookie).token, portal, workspace,
                                  outs, doc)
    IN  IF ~v.ok
        THEN [status |-> 401, sessions |-> after, expired |-> v.expired,
              calls |-> <<>>]
        ELSE IF ~Truthy(deployment)
        THEN [status |-> 500, sessions |-> after, expired |-> FALSE,
              calls |-> <<>>]
        ELSE IF ~Has(after, cookie) \/ ~Truthy(Get(after, cookie).token)
        THEN [status |-> 401, sessions |-> after, expired |-> FALSE,
              calls |-> <<>>]
        ELSE [status |-> IF r.ok THEN 200 ELSE 500, sessions |-> after,
              expired |-> FALSE, calls |-> r.calls]

\* ------------------------------------------------------------------ state
\* A request and its response: the cookie is the one the request carried
\* (internal-auth, redeploy) or the one the response sets (validate-token),
\* the token the one submitted (validate-token) or returned (internal-token).
Response(op, status, cookie, token, outcome, apiCalls, calls) ==
    [op |-> op, status |-> status, cookie |-> cookie, token |-> token,
     outcome |-> outcome, apiCalls |-> apiCalls, calls |-> calls]

NoResponse == Response("none", 0, None, None, "none", 0, <<>>)

\* get_file_mtime returns None when the file does not exist.
Absent == -1

Mtimes == 1..MaxMtime

\* The watcher before main() has run, with its configuration.
WatcherInit(cfg) ==
    /\ file = Absent
    /\ last_mtime = Absent
    /\ wpc = "start"
    /\ wcfg = cfg
    /\ wcalls = <<>>
    /\ seen = Absent
    /\ werr = "none"

WatcherConfigured ==
    [PORTAL_API |-> "cfg", WORKSPACE_ID |-> "cfg", APPLICATION_ID |-> "cfg"]

\* The event loop with no request in progress.
LoopInit ==
    /\ tasks = <<>>
    /\ running = 0
    /\ fault = "none"

Init ==
    /\ sessions = <<>>
    /\ now = 0
    /\ nextId = 1
    /\ PORTAL_API \in ConfigValues
    /\ WORKSPACE_ID \in ConfigValues
    /\ DEPLOYMENT_ID \in ConfigValues
    /\ resp = NoResponse
    /\ observed = {}
    /\ WatcherInit(WatcherConfigured)
    /\ LoopInit

\* The clock advances between requests.
Tick ==
    /\ now + TickHours <= MaxClock
    /\ now' = now + TickHours
    /\ UNCHANGED <<sessions, nextId, config, resp, observed, wvars, lvars>>

\* Whether validate_token gets as far as calling the validator.
CallsValidator(body) == body.kind = "object" /\ Truthy(body.token)

\* A client posts `body` to /validate-token; the identity API, if asked,
\* answers with `outcome`; d hours pass between the two clock reads of
\* create_session (none, or the clock is seen to move on by one observation).
ValidateTokenOf(body, outcome, d) ==
    LET r == validate_token(body, outcome, sessions, NewSessionId(nextId),
                            now, now + d)
    IN  /\ now + d <= MaxClock
        /\ r.status = 200 => nextId <= MaxSessions
        /\ sessions' = r.sessions
        /\ now' = now + d
        /\ nextId' = IF r.status = 200 THEN nextId + 1 ELSE nextId
        /\ resp' = Response("validate_token", r.status, r.cookie, body.token,
                            outcome, r.calls, <<>>)
        /\ UNCHANGED <<config, observed, wvars, lvars>>

ValidateToken ==
    \E body \in Bodies :
      \E outcome \in IF CallsValidator(body) THEN AuthOutcomes ELSE {"none"} :
        \E d \in IF CallsValidator(body) /\ Bool(outcome)
                 THEN {0, TickHours} ELSE {0} :
          ValidateTokenOf(body, outcome, d)

\* The reverse proxy asks /internal-auth about a cookie.
InternalAuthOf(cookie) ==
    LET r == internal_auth(sessions, cookie, now)
    IN  /\ UNCHANGED <<now, nextId, config, wvars, lvars>>
        /\ sessions' = r.sessions
        /\ resp' = Response("internal_auth", r.status, cookie, None, "none",
                            0, <<>>)
        /\ observed' = IF r.expired THEN observed \cup {cookie} ELSE observed

InternalAuth == \E cookie \in CookieInputs : InternalAuthOf(cookie)

\* An internal service asks /internal-token for a token.
InternalToken ==
    LET r == internal_token(sessions, now)
    IN  /\ resp' = Response("internal_token", r.status, None, r.token, "none",
                            0, <<>>)
        /\ UNCHANGED <<sessions, now, nextId, config, observed, wvars, lvars>>

\* A client posts to /redeploy with a cookie; the deployment API answers the
\* calls that are issued as the script `outs` says, the GET with `doc`.
RedeployOf(cookie, outs, doc) ==
    LET r == trigger_redeploy(sessions, cookie, now, PORTAL_API, WORKSPACE_ID,
                              DEPLOYMENT_ID, outs, doc)
    IN  /\ UNCHANGED <<now, nextId, config, wvars, lvars>>
        /\ sessions' = r.sessions
        /\ resp' = Response("redeploy", r.status, cookie, None, "none", 0,
                            r.calls)
        /\ observed' = IF r.expired THEN observed \cup {cookie} ELSE observed

\* The answers of the deployment API that are drawn for a request with this
\* cookie.  They are immaterial when the handler returns before the client is
\* called, and the document is when the GET fails: one is drawn then.
RedeployDraws(cookie) ==
    IF /\ is_valid_session(sessions, cookie, now).ok
       /\ Truthy(DEPLOYMENT_ID) /\ Truthy(PORTAL_API) /\ Truthy(WORKSPACE_ID)
    THEN {<<outs, doc>> \in Scripts \X Docs :
              outs[1] = "error" => doc.kind = "not_object"}
    ELSE {<<outs, doc>> \in Scripts \X Docs :
              outs[1] = "error" /\ doc.kind = "not_object"}

Redeploy ==
    \E cookie \in CookieInputs :
        \E draw \in RedeployDraws(cookie) : RedeployOf(cookie, draw[1], draw[2])

Next ==
    \/ Tick
    \/ ValidateToken
    \/ InternalAuth
    \/ InternalToken
    \/ Redeploy

Spec == Init /\ [][Next]_vars

\* ------------------------------------------------------------------- types
SessionOK(s) ==
    /\ s.id \in {NewSessionId(n) : n \in 1..MaxSessions}
    /\ s.token \in Tokens
    /\ s.expires \in 0..(MaxClock + SESSION_DURATION_HOURS)

TypeOK ==
    /\ \A i \in 1..Len(sessions) : SessionOK(sessions[i])
    /\ now \in 0..MaxClock
    /\ nextId \in 1..(MaxSessions + 1)
    /\ resp.status \in {0, 200, 400, 401, 404, 500}

\* ------------------------------------------------------------- properties
\* Clock values a request can be handled at, and a little beyond.
Clock == 0..(MaxClock + SESSION_DURATION_HOURS + 1)

\* A step that creates a session: token_urlsafe has been drawn from.
Creates == nextId' # nextId

\* C1: for every session in the store and every clock value,
\* is_valid_session returns true when the clock is strictly before the
\* session's expires time and false when it is strictly after it.
C1_ValidBeforeInvalidAfter ==
    \A i \in 1..Len(sessions) : \A t \in Clock :
        /\ t < sessions[i].expires
              => is_valid_session(sessions, sessions[i].id, t).ok
        /\ t > sessions[i].expires
              => ~is_valid_session(sessions, sessions[i].id, t).ok

\* C1 witness: the store holds a session that has expired and one that has
\* not, and /internal-auth has just accepted a cookie.
C1_Witness ==
    /\ \E i \in 1..Len(sessions) : sessions[i].expires < now
    /\ \E i \in 1..Len(sessions) : now < sessions[i].expires
    /\ resp.op = "internal_auth" /\ resp.status = 200

\* C2 (as claimed): is_valid_session(id) is true exactly when id is in the
\* store and now < expires, so it is false at the instant now = expires.
C2_ValidIffPresentAndBefore ==
    \A c \in CookieInputs :
        is_valid_session(sessions, c, now).ok
            <=> (Has(sessions, c) /\ now < Get(sessions, c).expires)

\* C3: when create_session has returned, is_valid_session accepts the
\* returned id at once and at every clock value up to the session duration
\* after the creation; the sweep has not removed the new entry.
C3_CreateThenValid ==
    [][(Creates /\ now' - now <= SESSION_DURATION_HOURS) =>
          /\ resp'.op = "validate_token" /\ resp'.status = 200
          /\ Has(sessions', resp'.cookie)
          /\ \A t \in now'..(now + SESSION_DURATION_HOURS) :
                 is_valid_session(sessions', resp'.cookie, t).ok]_vars

\* C3 witness: a second session has just been created and the sweep inside
\* create_session removed the first, expired one.
C3_Witness ==
    /\ resp.op = "validate_token" /\ resp.status = 200
    /\ nextId = 3
    /\ Ids(sessions) = {resp.cookie}

\* C4: an id that is_valid_session has found expired is not in the store and
\* is_valid_session rejects it at every later clock value, whatever requests
\* have been handled since.
C4_ExpiredStaysInvalid ==
    \A id \in observed :
        /\ ~Has(sessions, id)
        /\ \A t \in Clock : t >= now => ~is_valid_session(sessions, id, t).ok

\* C4 witness: after an id was found expired a new session was created, and
\* /internal-auth has just been asked about the expired id again.
C4_Witness ==
    /\ resp.op = "internal_auth" /\ resp.status = 401
    /\ resp.cookie \in observed
    /\ sessions # <<>>

\* C5: /internal-auth answers 200 or 401, and 200 exactly when
\* is_valid_session of the cookie is true.
C5_InternalAuthStatus ==
    [][\A c \in CookieInputs :
          InternalAuthOf(c) =>
              /\ resp'.status \in {200, 401}
              /\ resp'.status = 200 <=> is_valid_session(sessions, c, now).ok]_vars

\* C5 witness: /internal-auth has answered 401 to the cookie of a session
\* that had expired.
C5_Witness ==
    /\ resp.op = "internal_auth" /\ resp.status = 401
    /\ resp.cookie \in observed

\* The inputs a /validate-token request can have had, given the response r
\* it got and the d hours that passed in it.
ValidateInputs(r, d) ==
    IF r.op = "validate_token"
    THEN {<<body, r.outcome, d>> : body \in {b \in Bodies : b.token = r.token}}
    ELSE {}

\* The entries of the store.
Entries(st) == {st[i] : i \in 1..Len(st)}

\* C6 (as claimed): /validate-token answers every request body with 200, 400
\* or 401.
C6_StatusAlways200or400or401 ==
    resp.op = "validate_token" => resp.status \in {200, 400, 401}

\* C6 (amended): /validate-token answers 500 when the body is not a JSON
\* object, 400 when the token is missing or empty, 401 when the validator
\* returns false and 200 with the session cookie when it returns true.
C6_ValidateTokenStatus ==
    [][\A in \in ValidateInputs(resp', now' - now) :
          ValidateTokenOf(in[1], in[2], in[3]) =>
              LET body == in[1]
                  valid == validate_quix_token(body.token, in[2]).result
              IN  /\ resp'.status \in {200, 400, 401, 500}
                  /\ resp'.status = 500 <=> body.kind # "object"
                  /\ resp'.status = 400
                         <=> (body.kind = "object" /\ body.token \in {"", None})
                  /\ resp'.status = 401
                         <=> (body.kind = "object" /\ body.token \in Tokens
                              /\ ~valid)
                  /\ resp'.status = 200
                         <=> (body.kind = "object" /\ body.token \in Tokens
                              /\ valid)
                  /\ resp'.status = 200 <=> resp'.cookie # None]_vars

\* C6 witness: /validate-token has answered 500 to a body that it could not
\* read a token from.
C6_Witness ==
    /\ resp.op = "validate_token" /\ resp.status = 500
    /\ resp.apiCalls = 0

\* C7: an entry appears in the store only in a /validate-token request that
\* is answered 200, whose token the validator accepted; the entry holds the
\* submitted token under the id of the cookie and is the only one added; a
\* request answered otherwise leaves the store as it was.
C7_SessionsOnlyByValidation ==
    [][/\ \A e \in Entries(sessions') \ Entries(sessions) :
              /\ resp'.op = "validate_token" /\ resp'.status = 200
              /\ validate_quix_token(resp'.token, resp'.outcome).result
              /\ e.id = resp'.cookie /\ e.token = resp'.token
       /\ \A in \in ValidateInputs(resp', now' - now) :
              ValidateTokenOf(in[1], in[2], in[3]) =>
                  IF resp'.status = 200
                  THEN /\ Cardinality(Entries(sessions') \ Entries(sessions)) = 1
                       /\ Cardinality(Ids(sessions') \ Ids(sessions)) = 1
                  ELSE sessions' = sessions]_vars

\* C7 witness: a second session has just been added to the store by a
\* request answered 200.
C7_Witness ==
    /\ resp.op = "validate_token" /\ resp.status = 200
    /\ Len(sessions) = 2
    /\ sessions[2].id = resp.cookie /\ sessions[2].token = resp.token

\* C8: validate_quix_token never raises; for an empty or None token it
\* returns false without a permission check; for any other token it issues
\* one permission check and returns true exactly when the check returns a
\* truthy value.  The requests /validate-token has answered show the same.
C8_ValidatorFailsClosed ==
    /\ \A token \in TokenInputs, outcome \in AuthOutcomes :
           LET v == validate_quix_token(token, outcome)
           IN  /\ ~v.raised
               /\ token \in {"", None} => (~v.result /\ v.calls = 0)
               /\ token \in Tokens
                      => (v.calls = 1 /\ (v.result <=> outcome = "True"))
    /\ resp.op = "validate_token" =>
           IF resp.outcome = "none"
           THEN resp.apiCalls = 0 /\ resp.status \in {400, 500}
           ELSE /\ resp.apiCalls = 1
                /\ resp.status = IF resp.outcome = "True" THEN 200 ELSE 401

\* C8 witness: the permission check raised and /validate-token answered 401.
C8_Witness ==
    /\ resp.op = "validate_token" /\ resp.outcome = "raise"
    /\ resp.status = 401 /\ resp.apiCalls = 1

\* C9 (as claimed): /internal-token answers 200 with the token of a session
\* is_valid_session would accept when there is one, and 404 with a null
\* token when there is none.
C9_InternalTokenIffValid ==
    [][InternalToken =>
          LET valid == {e \in Entries(sessions) :
                            is_valid_session(sessions, e.id, now).ok}
          IN  IF valid # {}
              THEN /\ resp'.status = 200
                   /\ \E e \in valid : resp'.token = e.token
              ELSE resp'.status = 404 /\ resp'.token = None]_vars

\* C10 (as claimed): with several unexpired sessions in the store,
\* /internal-token returns the token of the one created last.
C10_MostRecentToken ==
    [][InternalToken =>
          LET live == {i \in 1..Len(sessions) : sessions[i].expires > now}
              last == CHOOSE i \in live : \A j \in live : j <= i
          IN  Cardinality(live) >= 2
                  => (resp'.status = 200 /\ resp'.token = sessions[last].token)]_vars

\* The inputs a /redeploy request can have had, given the response r it got.
RedeployInputs(r) ==
    IF r.op = "redeploy"
    THEN {<<r.cookie, draw[1], draw[2]>> : draw \in RedeployDraws(r.cookie)}
    ELSE {}

\* The methods of the three calls of a redeploy, in the order of the code.
Methods == <<"GET", "PUT", "POST">>

\* C11: one redeploy issues its calls in the order GET, PUT, POST, each at
\* most once, and a call only when every earlier call was answered 2xx; when
\* the GET succeeds and the PUT fails there is no POST and the request ends
\* in an error.
C11_CallsInOrderUntilFailure ==
    [][\A in \in RedeployInputs(resp') :
          RedeployOf(in[1], in[2], in[3]) =>
              LET calls == resp'.calls
                  outs == in[2]
              IN  /\ Len(calls) <= 3
                  /\ \A k \in 1..Len(calls) : calls[k].method = Methods[k]
                  /\ \A k \in 1..Len(calls) : \A j \in 1..(k - 1) : outs[j] = "2xx"
                  /\ outs[1] # "2xx" => Len(calls) <= 1
                  /\ (outs[1] = "2xx" /\ outs[2] # "2xx")
                         => (Len(calls) <= 2 /\ resp'.status # 200)]_vars

\* C11 witness: a redeploy whose GET succeeded and whose PUT failed has
\* ended in 500 after two calls.
C11_Witness ==
    /\ resp.op = "redeploy" /\ resp.status = 500
    /\ Len(resp.calls) = 2

\* C12: the body of the PUT has the version tag "latest", whatever the
\* document of the GET had there, and every other field as the GET returned
\* it.
C12_PutBodyIsLatest ==
    [][\A in \in RedeployInputs(resp') :
          (RedeployOf(in[1], in[2], in[3]) /\ Len(resp'.calls) >= 2) =>
              LET body == resp'.calls[2].body
                  fields == in[3].fields
              IN  /\ in[3].kind = "object"
                  /\ DOMAIN body = DOMAIN fields \cup {"versionTag"}
                  /\ body["versionTag"] = "latest"
                  /\ \A f \in DOMAIN fields \ {"versionTag"} :
                         body[f] = fields[f]]_vars

\* C12 witness: a PUT has been issued whose body carries the other fields of
\* a document that had a version tag of its own.
C12_Witness ==
    /\ resp.op = "redeploy" /\ Len(resp.calls) >= 2
    /\ resp.calls[2].method = "PUT"
    /\ resp.calls[2].body = [name |-> "svc", versionTag |-> "latest"]

\* C13: /redeploy answers 401 without any call when the cookie is not a valid
\* session; with a valid session, 500 without any call when the deployment
\* id, the API endpoint or the workspace id is not configured; 200 only when
\* GET, PUT and POST all succeeded and 500 when one of them failed.
C13_RedeployStatus ==
    [][\A in \in RedeployInputs(resp') :
          RedeployOf(in[1], in[2], in[3]) =>
              LET valid == is_valid_session(sessions, in[1], now).ok
                  configured == /\ Truthy(DEPLOYMENT_ID)
                                /\ Truthy(PORTAL_API)
                                /\ Truthy(WORKSPACE_ID)
                  outs == in[2]
                  allok == \A k \in 1..3 : outs[k] = "2xx"
              IN  /\ ~valid => (resp'.status = 401 /\ resp'.calls = <<>>)
                  /\ (valid /\ ~configured)
                         => (resp'.status = 500 /\ resp'.calls = <<>>)
                  /\ resp'.status = 200
                         => (valid /\ configured /\ allok /\ Len(resp'.calls) = 3)
                  /\ (valid /\ configured /\ ~allok) => resp'.status = 500
                  /\ resp'.status \in {200, 401, 500}]_vars

\* C13 witness: a redeploy whose PUT succeeded and whose POST failed has
\* ended in 500.
C13_Witness ==
    /\ resp.op = "redeploy" /\ resp.status = 500
    /\ Len(resp.calls) = 3

\* C17: every call of a redeploy carries the token of the session that the
\* cookie of the request names.
C17_BearerIsCallersToken ==
    [][\A in \in RedeployInputs(resp') :
          RedeployOf(in[1], in[2], in[3]) =>
              \A k \in 1..Len(resp'.calls) :
                  /\ Has(sessions, in[1])
                  /\ resp'.calls[k].bearer = Get(sessions, in[1]).token]_vars

\* C17 witness: with two sessions of different tokens in the store, the
\* session created last has redeployed with its own token.
C17_Witness ==
    /\ resp.op = "redeploy" /\ Len(resp.calls) = 3
    /\ Len(sessions) = 2
    /\ sessions[1].token # sessions[2].token
    /\ resp.cookie = sessions[2].id
    /\ resp.calls[1].bearer = sessions[2].token

\* C19: when create_session returns, the store is the previous store, in its
\* order, without the entries whose expires is earlier than the clock read
\* of the sweep, followed by the new entry.
C19_SweepRemovesExactlyExpired ==
    [][Creates =>
          LET kept == SelectSeq(sessions, LAMBDA e : ~(e.expires < now'))
              new == [id |-> resp'.cookie, token |-> resp'.token,
                      expires |-> now + SESSION_DURATION_HOURS]
          IN  /\ sessions' = Append(kept, new)
              /\ \A e \in Entries(sessions') : ~(e.expires < now')
              /\ \A e \in Entries(sessions) :
                     e.expires >= now' => e \in Entries(sessions')]_vars

\* C19 witness: a session has just been created at the instant another one
\* expires, and that one is still in the store.
C19_Witness ==
    /\ resp.op = "validate_token" /\ resp.status = 200
    /\ Len(sessions) = 2
    /\ sessions[1].expires = now

\* C20: no step changes the token or the expires time of a session that
\* stays in the store, and a new session gets the submitted token and
\* expires one session duration after its creation.
C20_SessionsImmutable ==
    [][/\ \A e \in Entries(sessions') :
              Has(sessions, e.id) => e = Get(sessions, e.id)
       /\ Creates =>
              /\ Has(sessions', resp'.cookie)
              /\ Get(sessions', resp'.cookie).token = resp'.token
              /\ Get(sessions', resp'.cookie).expires
                     = now + SESSION_DURATION_HOURS]_vars

\* C20 witness: /internal-auth has accepted a session some time after its
\* creation and its expires time is still the one it was created with.
C20_Witness ==
    /\ resp.op = "internal_auth" /\ resp.status = 200
    /\ Get(sessions, resp.cookie).expires < now + SESSION_DURATION_HOURS

\* ------------------------------------------------------------ file watcher
\* What get_user_token can return: the token of the auth proxy, None (the
\* proxy answered 404 or the call failed), or a JSON value that is not a
\* string.
NotAString == "<number>"

TokenAnswers == {"tokA", None, NotAString}

\* How the commit POST can end: 2xx, HTTPError, URLError, another exception.
PostOutcomes == {"ok", "HTTPError", "URLError", "Exception"}

\* Mutation of scan: a file that appears is recorded but not committed.
scan_nocreate(last, cur) ==
    IF cur = Absent
    THEN [last_mtime |-> Absent, commit |-> FALSE]
    ELSE IF last = Absent
    THEN [last_mtime |-> cur, commit |-> FALSE]
    ELSE IF cur # last
    THEN [last_mtime |-> cur, commit |-> TRUE]
    ELSE [last_mtime |-> last, commit |-> FALSE]

\* Mutation of scan: the new mtime of a changed file is not recorded when
\* commit_file is called (it would be recorded after a successful commit).
scan_recordafter(last, cur) ==
    IF cur = Absent
    THEN [last_mtime |-> Absent, commit |-> FALSE]
    ELSE IF last = Absent
    THEN [last_mtime |-> cur, commit |-> TRUE]
    ELSE IF cur # last
    THEN [last_mtime |-> last, commit |-> TRUE]
    ELSE [last_mtime |-> last, commit |-> FALSE]

\* One scan of main()'s loop, from the tracked last_mtime and the mtime the
\* stat returned: the new last_mtime and whether commit_file is called.
scan(last, cur) ==
    IF cur = Absent
    THEN [last_mtime |-> Absent, commit |-> FALSE]
    ELSE IF last = Absent
    THEN [last_mtime |-> cur, commit |-> TRUE]
    ELSE IF cur # last
    THEN [last_mtime |-> cur, commit |-> TRUE]
    ELSE [last_mtime |-> last, commit |-> FALSE]

\* Mutation of scan_exception: the loop has no except clause and an
\* exception ends main().
scan_exception_fatal(stage) == "crashed"

\* Where main() goes when an exception reaches the except clause of its loop:
\* it logs, sleeps 5 seconds and scans again.
scan_exception(stage) == "backoff"

\* The first test of commit_file.
commit_configured(cfg) == Truthy(cfg.PORTAL_API) /\ Truthy(cfg.WORKSPACE_ID)

\* main() up to its loop: the first stat.  get_file_mtime catches only
\* FileNotFoundError and this call is outside the try of the loop.
WatcherStart ==
    /\ wpc = "start"
    /\ \E raises \in BOOLEAN :
          IF raises
          THEN /\ wpc' = "crashed"
               /\ UNCHANGED <<last_mtime, seen>>
          ELSE /\ wpc' = "poll"
               /\ last_mtime' = file
               /\ seen' = file
    /\ UNCHANGED <<file, wcfg, wcalls, werr, avars, lvars>>

\* The stat of one scan and the branch it leads to.
Poll ==
    /\ wpc = "poll"
    /\ \E raises \in BOOLEAN :
          IF raises
          THEN /\ wpc' = scan_exception("stat")
               /\ werr' = "stat"
               /\ UNCHANGED <<last_mtime, seen>>
          ELSE LET r == scan(last_mtime, file)
               IN  /\ wpc' = IF r.commit THEN "commit" ELSE "sleep"
                   /\ last_mtime' = r.last_mtime
                   /\ seen' = file
                   /\ werr' = "none"
    /\ wcalls' = <<>>
    /\ UNCHANGED <<file, wcfg, avars, lvars>>

\* commit_file: the configuration test.
CommitFile ==
    /\ wpc = "commit"
    /\ wpc' = IF commit_configured(wcfg) THEN "read" ELSE "sleep"
    /\ UNCHANGED <<file, last_mtime, wcfg, wcalls, seen, werr, avars, lvars>>

\* commit_file: read_file_content, which returns None on any exception.
ReadFile ==
    /\ wpc = "read"
    /\ \E ok \in BOOLEAN :
          /\ file = Absent => ~ok
          /\ wpc' = IF ok THEN "token" ELSE "sleep"
          /\ werr' = IF ok THEN werr ELSE "read"
    /\ UNCHANGED <<file, last_mtime, wcfg, wcalls, seen, avars, lvars>>

\* commit_file: get_user_token and the logging of the token, which slices it.
GetUserToken ==
    /\ wpc = "token"
    /\ \E t \in TokenAnswers :
          /\ wcalls' = Append(wcalls, [to |-> "internal-token", token |-> t])
          /\ wpc' = IF t = NotAString THEN scan_exception("token") ELSE "post"
          /\ werr' = IF t = "tokA" THEN werr ELSE "token"
    /\ UNCHANGED <<file, last_mtime, wcfg, seen, avars, lvars>>

\* commit_file: the POST, with the token if there is one.
Post ==
    /\ wpc = "post"
    /\ \E out \in PostOutcomes :
          /\ wcalls' = Append(wcalls, [to |-> "commit",
                                       token |-> wcalls[Len(wcalls)].token])
          /\ werr' = IF out = "ok" THEN werr ELSE "post"
    /\ wpc' = "sleep"
    /\ UNCHANGED <<file, last_mtime, wcfg, seen, avars, lvars>>

\* time.sleep(1) at the end of a scan.
Sleep ==
    /\ wpc = "sleep"
    /\ wpc' = "poll"
    /\ UNCHANGED <<file, last_mtime, wcfg, wcalls, seen, werr, avars, lvars>>

\* time.sleep(5) in the except clause of the loop.
Backoff ==
    /\ wpc = "backoff"
    /\ wpc' = "poll"
    /\ UNCHANGED <<file, last_mtime, wcfg, wcalls, seen, werr, avars, lvars>>

\* Somebody writes, creates or deletes the watched file.
FileChange ==
    /\ \E m \in (Mtimes \cup {Absent}) \ {file} : file' = m
    /\ UNCHANGED <<last_mtime, wpc, wcfg, wcalls, seen, werr, avars, lvars>>

WatcherStep ==
    \/ WatcherStart
    \/ Poll
    \/ CommitFile
    \/ ReadFile
    \/ GetUserToken
    \/ Post
    \/ Sleep
    \/ Backoff

InitWatcher ==
    /\ sessions = <<>>
    /\ now = 0
    /\ nextId = 1
    /\ PORTAL_API = "cfg"
    /\ WORKSPACE_ID = "cfg"
    /\ DEPLOYMENT_ID = "cfg"
    /\ resp = NoResponse
    /\ observed = {}
    /\ \E cfg \in [PORTAL_API : ConfigValues, WORKSPACE_ID : ConfigValues,
                   APPLICATION_ID : ConfigValues] : WatcherInit(cfg)
    /\ LoopInit

NextWatcher ==
    \/ WatcherStart
    \/ Poll
    \/ CommitFile
    \/ ReadFile
    \/ GetUserToken
    \/ Post
    \/ Sleep
    \/ Backoff
    \/ FileChange

\* The watcher is sequential code whose blocking calls return or time out,
\* so it always takes its next step; nothing is assumed of the file.
SpecWatcher == InitWatcher /\ [][NextWatcher]_vars /\ WF_vars(WatcherStep)

\* C14: a scan whose stat returns calls commit_file exactly when the file is
\* there and either was not there at the previous stat or had another mtime
\* then; commit_file is called from nowhere else.
C14_CommitExactlyOnChange ==
    [][/\ (wpc = "poll" /\ wpc' \in {"commit", "sleep"}) =>
              (wpc' = "commit"
                  <=> (file # Absent /\ (seen = Absent \/ file # seen)))
       /\ (wpc' = "commit" /\ wpc # "commit") => wpc = "poll"]_vars

\* C14 witness: the file changed from one mtime to another and the scan has
\* called commit_file.
C14_Witness ==
    /\ wpc = "commit"
    /\ last_mtime = MaxMtime /\ file = MaxMtime
    /\ seen = MaxMtime

\* C15: inside the loop last_mtime is what the last stat that returned has
\* returned, no step of the loop ends the watcher, and after any failure of
\* a scan the watcher polls again.
C15_LoopSurvivesErrors ==
    /\ [](wpc \notin {"start", "crashed"} => last_mtime = seen)
    /\ [][(wpc' = "crashed" /\ wpc # "crashed") => wpc = "start"]_vars
    /\ (werr # "none") ~> (wpc = "poll")

\* C15 witness: the watcher is polling again after the commit POST failed.
C15_Witness ==
    /\ wpc = "poll" /\ werr = "post"
    /\ Len(wcalls) = 2

\* C16 (as claimed): with the API base URL, the workspace id or the
\* application id missing, the watcher calls neither /internal-token nor the
\* commit API.
C16_NoCallsWithoutConfig ==
    (\/ ~Truthy(wcfg.PORTAL_API)
     \/ ~Truthy(wcfg.WORKSPACE_ID)
     \/ ~Truthy(wcfg.APPLICATION_ID)) => wcalls = <<>>

\* The positions inside commit_file.
CommitPcs == {"commit", "read", "token", "post"}

\* The calls of the current scan that are commit POSTs.
CommitPosts == SelectSeq(wcalls, LAMBDA c : c.to = "commit")

\* C21: while commit_file runs, last_mtime is already the mtime the scan has
\* observed; a scan sends at most one commit POST; and after a commit
\* attempt that failed (read error, no token, failed POST) a poll calls
\* commit_file again only when the file has another mtime than at the last
\* stat or was absent then.
C21_OneAttemptPerTransition ==
    /\ [](wpc \in CommitPcs => (last_mtime = seen /\ seen # Absent))
    /\ [](Len(CommitPosts) <= 1)
    /\ [][(/\ wpc = "poll"
           /\ werr \in {"read", "token", "post"}
           /\ wpc' = "commit") => (seen = Absent \/ file # seen)]_vars

\* C21 witness: the read of a commit attempt has failed, the file is still
\* there with the mtime that was recorded, and the watcher is about to poll.
C21_Witness ==
    /\ wpc = "poll" /\ werr = "read"
    /\ file # Absent /\ file = seen /\ last_mtime = file

\* -------------------------------------------------------------- event loop
\* uvicorn.run(app) serves every request on one event loop.  The handlers
\* are coroutines; this part follows them statement by statement, with the
\* requests in progress in `tasks` and the one that holds the loop in
\* `running` (0 when the loop is free).
MaxTasks == 2

TaskIds == 1..MaxTasks

Ops == {"validate_token", "internal_auth", "internal_token", "trigger_redeploy"}

NoEntry == [id |-> None, token |-> None, expires |-> 0]

\* A slot with no request: op, position, argument (the cookie or the posted
\* token), the `expired` list of cleanup_sessions, the local `session`.
IdleTask ==
    [op |-> "none", pc |-> "idle", arg |-> None, expired |-> <<>>,
     ent |-> NoEntry]

\* The first statement of each handler.
FirstPc(op) ==
    CASE op = "validate_token" -> "json"
      [] op = "internal_auth" -> "check"
      [] op = "trigger_redeploy" -> "check"
      [] op = "internal_token" -> "scan"

\* Mutation of Yields: every statement gives the loop up, as threads would.
Yields_preemptive(op, pc) == TRUE

\* Whether a handler that has arrived at pc gives the loop up there: only at
\* its one await (request.json() in validate_token) and when it returns.
Yields(op, pc) == pc \in {"json", "idle"}

\* Sets the fault unless an earlier one is recorded.
Fault(f) == IF fault = "none" THEN f ELSE fault

\* Task i holds the loop, or can take it, and is at pc.
At(i, pc) == tasks[i].pc = pc /\ running \in {0, i}

\* Task i moves to the record rec; the loop is free afterwards iff the task
\* yields there.
Goes(i, rec) ==
    /\ tasks' = [tasks EXCEPT ![i] = rec]
    /\ running' = IF Yields(rec.op, rec.pc) THEN 0 ELSE i
    /\ resp' = resp

\* The handler of task i returns a response with this status and token.
Returns(i, status, token) ==
    /\ tasks' = [tasks EXCEPT ![i] = IdleTask]
    /\ running' = IF Yields(tasks[i].op, "idle") THEN 0 ELSE i
    /\ resp' = Response(tasks[i].op, status, None, token, "none", 0, <<>>)

\* The requests that will still create a session.
Creating == {i \in TaskIds : tasks[i].op = "validate_token"}

\* A request arrives and its handler runs to its first statement.
StartRequest ==
    /\ running = 0
    /\ \E i \in TaskIds, op \in Ops :
          /\ tasks[i].pc = "idle"
          /\ op = "validate_token" =>
                nextId + Cardinality(Creating) <= MaxSessions
          /\ \E arg \in IF op = "validate_token" THEN {"tokA"}
                        ELSE IF op = "internal_token" THEN {None}
                        ELSE {NewSessionId(n) : n \in 1..MaxSessions} :
                Goes(i, [IdleTask EXCEPT !.op = op, !.pc = FirstPc(op),
                                         !.arg = arg])
    /\ UNCHANGED <<sessions, now, nextId, fault, config, observed, wvars>>

\* validate_token, from the await of request.json() to the answer of
\* validate_quix_token, a blocking call.
ResumeJson ==
    /\ \E i \in TaskIds, accept \in BOOLEAN :
          /\ At(i, "json")
          /\ IF accept THEN Goes(i, [tasks[i] EXCEPT !.pc = "insert"])
             ELSE Returns(i, 401, None)
    /\ UNCHANGED <<sessions, now, nextId, fault, config, observed, wvars>>

\* create_session: sessions[session_id] = {...}.
Insert ==
    /\ \E i \in TaskIds :
          /\ At(i, "insert")
          /\ sessions' = DictSet(sessions,
                [id |-> NewSessionId(nextId), token |-> tasks[i].arg,
                 expires |-> now + SESSION_DURATION_HOURS])
          /\ Goes(i, [tasks[i] EXCEPT !.pc = "sweep_scan"])
    /\ nextId' = nextId + 1
    /\ UNCHANGED <<now, fault, config, observed, wvars>>

\* cleanup_sessions: the list of the expired ids.
SweepScan ==
    /\ \E i \in TaskIds :
          /\ At(i, "sweep_scan")
          /\ LET old == SelectSeq(sessions, LAMBDA e : e.expires < now)
                 ids == [k \in 1..Len(old) |-> old[k].id]
             IN  IF ids = <<>> THEN Returns(i, 200, None)
                 ELSE Goes(i, [tasks[i] EXCEPT !.pc = "sweep_del",
                                               !.expired = ids])
    /\ UNCHANGED <<sessions, now, nextId, fault, config, observed, wvars>>

\* cleanup_sessions: del sessions[sid] for the next id of the list.
SweepDel ==
    /\ \E i \in TaskIds :
          /\ At(i, "sweep_del")
          /\ LET sid == Head(tasks[i].expired)
                 rest == Tail(tasks[i].expired)
             IN  IF Has(sessions, sid)
                 THEN /\ sessions' = DictDel(sessions, sid)
                      /\ fault' = fault
                      /\ IF rest = <<>> THEN Returns(i, 200, None)
                         ELSE Goes(i, [tasks[i] EXCEPT !.expired = rest])
                 ELSE /\ sessions' = sessions
                      /\ fault' = Fault("KeyError")
                      /\ Returns(i, 500, None)
    /\ UNCHANGED <<now, nextId, config, observed, wvars>>

\* is_valid_session: the membership test.
Check ==
    /\ \E i \in TaskIds :
          /\ At(i, "check")
          /\ IF Has(sessions, tasks[i].arg)
             THEN Goes(i, [tasks[i] EXCEPT !.pc = "read"])
             ELSE Returns(i, 401, None)
    /\ UNCHANGED <<sessions, now, nextId, fault, config, observed, wvars>>

\* is_valid_session: session = sessions[session_id].
Read ==
    /\ \E i \in TaskIds :
          /\ At(i, "read")
          /\ IF Has(sessions, tasks[i].arg)
             THEN /\ fault' = fault
                  /\ Goes(i, [tasks[i] EXCEPT !.pc = "test",
                                 !.ent = Get(sessions, tasks[i].arg)])
             ELSE /\ fault' = Fault("KeyError")
                  /\ Returns(i, 500, None)
    /\ UNCHANGED <<sessions, now, nextId, config, observed, wvars>>

\* is_valid_session: the expiry test.
Test ==
    /\ \E i \in TaskIds :
          /\ At(i, "test")
          /\ Goes(i, [tasks[i] EXCEPT
                !.pc = IF tasks[i].ent.expires < now THEN "del" ELSE "ret"])
    /\ UNCHANGED <<sessions, now, nextId, fault, config, observed, wvars>>

\* is_valid_session: del sessions[session_id]; return False.
Del ==
    /\ \E i \in TaskIds :
          /\ At(i, "del")
          /\ IF Has(sessions, tasks[i].arg)
             THEN /\ sessions' = DictDel(sessions, tasks[i].arg)
                  /\ fault' = fault
                  /\ Returns(i, 401, None)
             ELSE /\ sessions' = sessions
                  /\ fault' = Fault("KeyError")
                  /\ Returns(i, 500, None)
    /\ UNCHANGED <<now, nextId, config, observed, wvars>>

\* is_valid_session: return True, to internal_auth, which answers 200, or to
\* trigger_redeploy, which goes on.
Ret ==
    /\ \E i \in TaskIds :
          /\ At(i, "ret")
          /\ fault' = IF Has(sessions, tasks[i].arg) THEN fault
                      ELSE Fault("stale_valid")
          /\ IF tasks[i].op = "trigger_redeploy"
             THEN Goes(i, [tasks[i] EXCEPT !.pc = "get"])
             ELSE Returns(i, 200, None)
    /\ UNCHANGED <<sessions, now, nextId, config, observed, wvars>>

\* trigger_redeploy: session = sessions.get(quix_session).
GetSession ==
    /\ \E i \in TaskIds :
          /\ At(i, "get")
          /\ IF Has(sessions, tasks[i].arg)
             THEN Goes(i, [tasks[i] EXCEPT !.pc = "call",
                              !.ent = Get(sessions, tasks[i].arg)])
             ELSE Returns(i, 401, None)
    /\ UNCHANGED <<sessions, now, nextId, fault, config, observed, wvars>>

\* trigger_redeploy: redeploy_with_latest(DEPLOYMENT_ID, session["token"]),
\* a blocking call that returns or raises.
CallRedeploy ==
    /\ \E i \in TaskIds, status \in {200, 500} :
          /\ At(i, "call")
          /\ fault' = IF Has(sessions, tasks[i].arg) THEN fault
                      ELSE Fault("stale_token")
          /\ Returns(i, status, tasks[i].ent.token)
    /\ UNCHANGED <<sessions, now, nextId, config, observed, wvars>>

\* internal_token: the scan of the table and the answer.
ScanTokens ==
    /\ \E i \in TaskIds :
          /\ At(i, "scan")
          /\ LET r == internal_token(sessions, now)
             IN  Returns(i, r.status, r.token)
    /\ UNCHANGED <<sessions, now, nextId, fault, config, observed, wvars>>

InitLoop ==
    /\ sessions = <<>>
    /\ now = 0
    /\ nextId = 1
    /\ PORTAL_API = "cfg"
    /\ WORKSPACE_ID = "cfg"
    /\ DEPLOYMENT_ID = "cfg"
    /\ resp = NoResponse
    /\ observed = {}
    /\ WatcherInit(WatcherConfigured)
    /\ tasks = [i \in TaskIds |-> IdleTask]
    /\ running = 0
    /\ fault = "none"

NextLoop ==
    \/ Tick
    \/ StartRequest
    \/ ResumeJson
    \/ Insert
    \/ SweepScan
    \/ SweepDel
    \/ Check
    \/ Read
    \/ Test
    \/ Del
    \/ Ret
    \/ GetSession
    \/ CallRedeploy
    \/ ScanTokens

SpecLoop == InitLoop /\ [][NextLoop]_vars

\* The positions between two statements of is_valid_session, of
\* create_session and its sweep, and of trigger_redeploy after the check.
MidStore ==
    {"insert", "sweep_scan", "sweep_del", "read", "test", "del", "ret", "get",
     "call", "scan"}

\* C18: a request that is between two accesses to the session table holds
\* the event loop, so no other request runs until its sequence is over; no
\* request is told 'valid', or reads a token in redeploy, for a session that
\* is gone, and no statement fails on a missing entry.
C18_StoreSequencesAtomic ==
    /\ \A i \in DOMAIN tasks : tasks[i].pc \in MidStore => running = i
    /\ fault = "none"

\* C18 witness: a sweep is deleting expired sessions while another
\* validate-token request waits at its await.
C18_Witness ==
    \E i, j \in DOMAIN tasks :
        /\ tasks[i].pc = "sweep_del"
        /\ tasks[j].pc = "json"
        /\ running = i

====
